---------------------------- MODULE Spec2Model ----------------------------
(***************************************************************************)
(* A model of the auto clicker: the ClickWorker thread                     *)
(* (autoclicker/click_engine.py), the SendInput right click, the monitor   *)
(* coordinate conversions (autoclicker/monitors.py) and the Tk application *)
(* that starts and stops workers (autoclicker/ui.py).                      *)
(*                                                                         *)
(* Strings that the code only compares or orders are kept as strings or,   *)
(* where an order is needed, as their rank in that order.                  *)
(***************************************************************************)
EXTENDS Integers, Sequences, FiniteSets, TLC

(***************************************************************************)
(* Bounds of the model.                                                    *)
(***************************************************************************)
\* Findings, files and tool runs in one ReviewResult, together.
MaxItems == 4
\* Scheduled _poll_worker_state callbacks at one time.
MaxPolls == 2
\* Queued hotkey toggles at one time.
MaxToggles == 1
\* Monitors in one list of monitors.
MaxMonitors == 2
\* Worker threads the application may create in one run.
MaxWorkers == 3
\* Counters of clicks and waits saturate at this value.
MaxClicks == 3

\* The largest small size of the virtual desktop in the normalisation runs.
MaxSize == 5

Workers == 1..MaxWorkers

VARIABLES
    workers,          \* worker id -> [pc, on_error, click_fn, exc]: the ClickWorker threads
    stop_event,       \* threading.Event shared by the application and its workers
    click_times,      \* len(click_times) of the recording click_fn of the tests
    captured_errors,  \* the list on_error appends to in the tests
    pending_errors,   \* queued after(0, _handle_worker_error, message) callbacks
    gh,               \* history of worker 1: what the worker claims talk about
    sr_pc,            \* where one call of send_right_click is
    platform,         \* sys.platform
    metrics,          \* GetSystemMetrics: [x, y, w, h] of the virtual desktop
    abs_pos,          \* the arguments <<abs_x, abs_y>> of send_right_click
    normalized,       \* <<normalized_x, normalized_y>> (line 102)
    events,           \* the SendInput calls made, in order
    sr_exc,           \* the exception send_right_click raised (NoExc: none)
    co_pc,            \* "input": a conversion is to be called; else the one that was called
    co_monitors,      \* the monitors argument: a list of MonitorInfo
    co_point,         \* the coordinates argument: <<rel_x, rel_y>> or <<abs_x, abs_y>>
    co_result,        \* what the conversion returned or raised
    findings,         \* ReviewResult: the list of Finding
    files,            \* ReviewResult: the list of ReviewedFile
    tooling,          \* ReviewResult: the list of ToolRun
    threshold,        \* the configured failure threshold
    summary,          \* ReviewResult: the derived Summary (None before normalize)
    normalize_runs,   \* how often normalize(threshold) has run on the result
    rv_input,         \* history: the findings handed to the first normalize
    rv_first,         \* history: the result as the first normalize left it
    worker,           \* AutoClickerApp._worker: a worker id, or 0 for None
    shutting_down,    \* AutoClickerApp._shutting_down
    start_button,     \* state of the Start button: "normal" or "disabled"
    stop_button,      \* state of the Stop button
    status_var,           \* status_var: <<text, argument>>
    pending_polls,    \* scheduled after(.., _poll_worker_state) callbacks
    pending_toggles,  \* queued after(0, _toggle_start_stop) callbacks
    monitors_by_id,   \* AutoClickerApp._monitors_by_id, in the order of the dict
    monitor_var,      \* monitor_var: the id of the monitor whose label is selected
    hotkey,           \* the F8 listener: "listening", "failed" or "stopped"
    ui_pc             \* the Tk main thread: "idle", "joining" (in _on_close) or "closed"

threadVars == <<workers, stop_event, click_times, captured_errors, pending_errors>>
ghVars == <<gh>>
srVars == <<sr_pc, platform, metrics, abs_pos, normalized, events, sr_exc>>

coVars == <<co_pc, co_monitors, co_point, co_result>>

rvVars == <<findings, files, tooling, threshold, summary, normalize_runs, rv_input, rv_first>>

uiVars == <<worker, shutting_down, start_button, stop_button, status_var, pending_polls,
            pending_toggles, monitors_by_id, monitor_var, hotkey, ui_pc>>

vars == <<threadVars, ghVars, srVars, coVars, rvVars, uiVars>>

\* What a specification of one part leaves alone.
exceptWorker == <<srVars, coVars, rvVars, uiVars>>
exceptSr == <<threadVars, ghVars, coVars, rvVars, uiVars>>
exceptCo == <<threadVars, ghVars, srVars, rvVars, uiVars>>
exceptRv == <<threadVars, ghVars, srVars, coVars, uiVars>>
exceptUi == <<ghVars, srVars, coVars, rvVars>>

(***************************************************************************)
(* ClickWorker                                                             *)
(***************************************************************************)
\* Where a thread is in ClickWorker.run:
\*   "unstarted"  no such thread yet
\*   "loop"       at the while condition (line 149)
\*   "click"      about to call click_fn (line 151)
\*   "wait"       about to call stop_event.wait (line 157)
\*   "waiting"    blocked inside stop_event.wait
\*   "exit"       the loop is left, run() returns; the thread is still alive
\*   "dead"       the thread has ended, is_alive() is False
WorkerPcs == {"unstarted", "loop", "click", "wait", "waiting", "exit", "dead"}

NoExc == ""
Excs == {"click failed", "OSError"}

\* exc is the exception caught at line 152 (NoExc: none so far).
NoWorker == [pc |-> "unstarted", on_error |-> "none", click_fn |-> "record", exc |-> NoExc]

\* A saturating counter.
Sat(n) == IF n < MaxClicks THEN n + 1 ELSE MaxClicks

\* An is_alive() that stays True after the thread has ended.
IsAliveOnceStarted(w) == workers[w].pc # "unstarted"

\* Thread.is_alive() of worker w.
IsAlive(w) == workers[w].pc \notin {"unstarted", "dead"}

\* What one call of click_fn may do: raise exc (NoExc: return normally) and,
\* before that, set the stop event.  times is len(click_times) before the call.
\*   "record"            test_worker.py lines 11-12: records the time
\*   "stop_at_2"         test_worker.py lines 36-39: sets the event from the 2nd call on
\*   "raise"             test_worker.py lines 61-62: always raises
\*   "any"               an arbitrary callable
\*   "send_right_click"  the default: returns, or raises OSError
ClickFnOutcomes(fn, times) ==
    CASE fn = "record"    -> {[exc |-> NoExc, sets |-> FALSE]}
      [] fn = "stop_at_2" -> {[exc |-> NoExc, sets |-> (times + 1 >= 2)]}
      [] fn = "raise"     -> {[exc |-> "click failed", sets |-> FALSE]}
      [] fn = "any"       -> [exc : Excs \cup {NoExc}, sets : BOOLEAN]
      [] fn = "send_right_click" -> [exc : {NoExc, "OSError"}, sets : {FALSE}]

\* Whether the click_fn keeps the click_times list of the tests.
Records(fn) == fn \in {"record", "stop_at_2"}

\* A set() that sets the flag but wakes no waiting thread.
NotifiedNobody(ws) == ws

\* threading.Event.set(): the flag is set and every thread blocked in wait()
\* is notified; its wait() returns True whatever happens to the flag later.
Notified(ws) ==
    [w \in Workers |->
        IF ws[w].pc = "waiting" THEN [ws[w] EXCEPT !.pc = "exit"] ELSE ws[w]]

\* line 149: while not self._stop_event.is_set()
WorkerLoop(w) ==
    /\ workers[w].pc = "loop"
    /\ workers' = [workers EXCEPT ![w].pc = IF stop_event THEN "exit" ELSE "click"]
    /\ UNCHANGED <<stop_event, click_times, captured_errors, pending_errors>>

\* The break of line 155 left out: the worker goes on to its wait.
AfterRaiseNoBreak == "wait"

\* The pc of the worker after click_fn raised: on_error was called, break.
AfterRaisePc == "exit"

\* The wait of line 157 left out: the worker loops at once.
AfterClickNoWait == "loop"

\* The pc of the worker after click_fn returned: on to the interval wait.
AfterClickPc == "wait"

\* A run() that swallows the exception without calling on_error.
NeverCallsOnError(kind) == FALSE

\* Whether on_error is called for a raised exception (lines 153-154).
CallsOnError(kind) == kind # "none"

\* lines 150-155: the call of click_fn, and of on_error when it raises.
\* uiAlive: whether the Tk window still exists (after() raises TclError if not).
WorkerClick(w, uiAlive) ==
    /\ workers[w].pc = "click"
    /\ \E out \in ClickFnOutcomes(workers[w].click_fn, click_times) :
        LET ws1 == IF out.sets THEN Notified(workers) ELSE workers
            kind == workers[w].on_error
        IN  /\ click_times' = IF Records(workers[w].click_fn)
                                THEN Sat(click_times) ELSE click_times
            /\ stop_event' = (stop_event \/ out.sets)
            /\ IF out.exc = NoExc
                 THEN /\ workers' = [ws1 EXCEPT ![w].pc = AfterClickPc]
                      /\ UNCHANGED <<captured_errors, pending_errors>>
                 ELSE /\ workers' = [ws1 EXCEPT ![w].pc = AfterRaisePc, ![w].exc = out.exc]
                      /\ captured_errors' =
                            IF CallsOnError(kind) /\ kind = "append"
                              THEN Append(captured_errors, out.exc)
                              ELSE captured_errors
                      /\ pending_errors' =
                            IF CallsOnError(kind) /\ kind = "ui" /\ uiAlive
                              THEN Append(pending_errors, [msg |-> out.exc, from |-> w])
                              ELSE pending_errors

\* line 157: stop_event.wait(interval) is entered; with the flag set it returns
\* True at once (break), otherwise the thread blocks.
WorkerWaitEnter(w) ==
    /\ workers[w].pc = "wait"
    /\ workers' = [workers EXCEPT ![w].pc = IF stop_event THEN "exit" ELSE "waiting"]
    /\ UNCHANGED <<stop_event, click_times, captured_errors, pending_errors>>

\* line 157: the interval expires unnotified, wait() returns False: loop again.
WorkerWaitTimeout(w) ==
    /\ workers[w].pc = "waiting"
    /\ workers' = [workers EXCEPT ![w].pc = "loop"]
    /\ UNCHANGED <<stop_event, click_times, captured_errors, pending_errors>>

\* run() has returned; the thread ends.
WorkerExit(w) ==
    /\ workers[w].pc = "exit"
    /\ workers' = [workers EXCEPT ![w].pc = "dead"]
    /\ UNCHANGED <<stop_event, click_times, captured_errors, pending_errors>>

(***************************************************************************)
(* The worker on its own, as the tests of tests/test_worker.py run it: one *)
(* ClickWorker, a click_fn, an on_error, and a main thread that may set    *)
(* the stop event.  gh records what worker 1 did.                          *)
(***************************************************************************)
\* calls       calls of click_fn so far (saturating)
\* waitsSince  interval waits that expired since the last call of click_fn
\* expiredSet  an interval wait expired although the event was set
\* raised      click_fn has raised
\* afterRaise  calls of click_fn and of wait() after click_fn raised
\* setBy       who set the event: "none", "env" (another thread), "click_fn"
\* pcAtSet     where the worker was when the event was set ("in_click": inside click_fn)
\* sinceSet    calls of click_fn that began after the event was set
GhInit(preset) ==
    [calls |-> 0, waitsSince |-> 0, expiredSet |-> FALSE, raised |-> FALSE,
     afterRaise |-> 0,
     setBy |-> IF preset THEN "env" ELSE "none",
     pcAtSet |-> IF preset THEN "loop" ELSE "unset",
     sinceSet |-> 0]

TestClickFns == {"record", "stop_at_2", "raise", "any"}
TestOnErrors == {"none", "append"}

WLoop ==
    /\ WorkerLoop(1)
    /\ UNCHANGED <<gh, exceptWorker>>

WClick ==
    /\ WorkerClick(1, FALSE)
    /\ gh' = [gh EXCEPT !.calls = Sat(@),
                        !.waitsSince = 0,
                        !.sinceSet = IF stop_event THEN Sat(@) ELSE @,
                        !.setBy = IF ~stop_event /\ stop_event' THEN "click_fn" ELSE @,
                        !.pcAtSet = IF ~stop_event /\ stop_event' THEN "in_click" ELSE @,
                        !.afterRaise = IF gh.raised THEN Sat(@) ELSE @,
                        !.raised = (@ \/ workers'[1].exc # NoExc)]
    /\ UNCHANGED exceptWorker

WWaitEnter ==
    /\ WorkerWaitEnter(1)
    /\ gh' = [gh EXCEPT !.afterRaise = IF gh.raised THEN Sat(@) ELSE @]
    /\ UNCHANGED exceptWorker

WWaitTimeout ==
    /\ WorkerWaitTimeout(1)
    /\ gh' = [gh EXCEPT !.waitsSince = Sat(@),
                        !.expiredSet = (@ \/ stop_event)]
    /\ UNCHANGED exceptWorker

WExit ==
    /\ WorkerExit(1)
    /\ UNCHANGED <<gh, exceptWorker>>

\* test_worker.py line 25: the main thread sets the event.
EnvSetStop ==
    /\ ~stop_event
    /\ stop_event' = TRUE
    /\ workers' = Notified(workers)
    /\ gh' = [gh EXCEPT !.setBy = "env", !.pcAtSet = workers[1].pc]
    /\ UNCHANGED <<click_times, captured_errors, pending_errors, exceptWorker>>

\* The threads idle: no worker, as after AutoClickerApp.__init__.
ThreadIdle ==
    /\ workers = [w \in Workers |-> NoWorker]
    /\ stop_event = FALSE
    /\ click_times = 0
    /\ captured_errors = <<>>
    /\ pending_errors = <<>>

GhIdle == gh = GhInit(FALSE)

(***************************************************************************)
(* send_right_click (click_engine.py lines 51-124)                         *)
(***************************************************************************)
MOUSEEVENTF_MOVE == 1
MOUSEEVENTF_RIGHTDOWN == 8
MOUSEEVENTF_RIGHTUP == 16
MOUSEEVENTF_VIRTUALDESK == 16384
MOUSEEVENTF_ABSOLUTE == 32768

\* Python's | on non-negative integers.
RECURSIVE BitOr(_, _)
BitOr(a, b) ==
    IF a = 0 THEN b
    ELSE IF b = 0 THEN a
    ELSE (IF a % 2 = 1 \/ b % 2 = 1 THEN 1 ELSE 0) + 2 * BitOr(a \div 2, b \div 2)

\* A rounding that truncates, as int(n / d) does for n >= 0.
RoundDown(n, d) == n \div d

\* Python's round(n / d) for an integer n and d > 0: the float quotient is
\* rounded to the nearest integer, a tie to the even one.
Round(n, d) ==
    LET q == n \div d
        r == n % d
    IN  IF 2 * r < d THEN q
        ELSE IF 2 * r > d THEN q + 1
        ELSE IF q % 2 = 0 THEN q ELSE q + 1

\* lines 51-54
to_normalized_coordinate(value, start, size) ==
    IF size <= 1 THEN 0 ELSE Round((value - start) * 65535, size - 1)

\* A size check that lets a zero size through.
VirtualDesktopNegative(w, h) == w < 0 \/ h < 0

\* line 65
VirtualDesktopInvalid(w, h) == w <= 0 \/ h <= 0

\* A SendInput whose result is not looked at.
SendNeverFails(sent) == FALSE

\* line 91
SendFailed(sent) == sent # 1

\* lines 109-112 and 118-121
DownFlags ==
    BitOr(BitOr(BitOr(MOUSEEVENTF_MOVE, MOUSEEVENTF_ABSOLUTE), MOUSEEVENTF_VIRTUALDESK),
          MOUSEEVENTF_RIGHTDOWN)
UpFlags ==
    BitOr(BitOr(BitOr(MOUSEEVENTF_MOVE, MOUSEEVENTF_ABSOLUTE), MOUSEEVENTF_VIRTUALDESK),
          MOUSEEVENTF_RIGHTUP)

\* lines 97-98: the platform check.
SrPlatform ==
    /\ sr_pc = "start"
    /\ IF platform # "win32"
         THEN /\ sr_pc' = "raised"
              /\ sr_exc' = "OSError"
         ELSE /\ sr_pc' = "metrics"
              /\ UNCHANGED sr_exc
    /\ UNCHANGED <<platform, metrics, abs_pos, normalized, events>>
    /\ UNCHANGED exceptSr

\* lines 100-104 and 57-71: _normalized_virtual_desktop_coordinates.
SrNormalize ==
    /\ sr_pc = "metrics"
    /\ IF VirtualDesktopInvalid(metrics.w, metrics.h)
         THEN /\ sr_pc' = "raised"
              /\ sr_exc' = "OSError"
              /\ UNCHANGED normalized
         ELSE /\ sr_pc' = "down"
              /\ normalized' =
                    <<to_normalized_coordinate(abs_pos[1], metrics.x, metrics.w),
                      to_normalized_coordinate(abs_pos[2], metrics.y, metrics.h)>>
              /\ UNCHANGED sr_exc
    /\ UNCHANGED <<platform, metrics, abs_pos, events>>
    /\ UNCHANGED exceptSr

\* lines 74-92: _send_mouse_input(user32, flags, dx, dy): one SendInput call of
\* one event; SendInput returns how many events it inserted (0 or 1).
send_mouse_input(flags, dx, dy, okPc) ==
    \E sent \in {0, 1} :
        /\ events' = Append(events, [n |-> 1, flags |-> flags, dx |-> dx, dy |-> dy,
                                     sent |-> sent])
        /\ IF SendFailed(sent)
             THEN /\ sr_pc' = "raised"
                  /\ sr_exc' = "OSError"
             ELSE /\ sr_pc' = okPc
                  /\ UNCHANGED sr_exc

\* lines 107-115: move and button down in one event.
SrDown ==
    /\ sr_pc = "down"
    /\ send_mouse_input(DownFlags, normalized[1], normalized[2], "up")
    /\ UNCHANGED <<platform, metrics, abs_pos, normalized>>
    /\ UNCHANGED exceptSr

\* lines 116-124: button up at the same place.
SrUp ==
    /\ sr_pc = "up"
    /\ send_mouse_input(UpFlags, normalized[1], normalized[2], "returned")
    /\ UNCHANGED <<platform, metrics, abs_pos, normalized>>
    /\ UNCHANGED exceptSr

\* No call of send_right_click is modelled.
SrIdle ==
    /\ sr_pc = "idle"
    /\ platform = "win32"
    /\ metrics = [x |-> 0, y |-> 0, w |-> 1, h |-> 1]
    /\ abs_pos = <<0, 0>>
    /\ normalized = <<0, 0>>
    /\ events = <<>>
    /\ sr_exc = NoExc

(***************************************************************************)
(* Monitors and coordinates (models.py, monitors.py lines 42-58)           *)
(***************************************************************************)
\* models.py lines 7-14: MonitorInfo.  The sizes are small so that every
\* point in and around a monitor is tried.
MonitorInfo(id, name, x, y, width, height, is_primary) ==
    [id |-> id, name |-> name, x |-> x, y |-> y, width |-> width, height |-> height,
     is_primary |-> is_primary]

\* A primary monitor at the origin, one left of it (negative origin), one that
\* overlaps the primary, and one of width 0.
Monitors ==
    {MonitorInfo("monitor-0", "Primary", 0, 0, 3, 2, TRUE),
     MonitorInfo("monitor-1", "Secondary", -3, 0, 3, 2, FALSE),
     MonitorInfo("monitor-2", "Overlap", 1, 1, 3, 2, FALSE),
     MonitorInfo("monitor-3", "Empty", 0, 0, 0, 2, FALSE)}

\* The lists of at most MaxMonitors monitors.
MonitorLists == UNION {[1..n -> Monitors] : n \in 0..MaxMonitors}

None == [none |-> TRUE]
Raised(exc) == [ok |-> FALSE, exc |-> exc]
Returned(v) == [ok |-> TRUE, value |-> v]

\* A bounds check that accepts the coordinate one past the last.
InRangeInclusive(v, size) == 0 <= v /\ v <= size

\* lines 43 and 45: 0 <= v < size
InRange(v, size) == 0 <= v /\ v < size

\* lines 42-47
relative_to_absolute(monitor, rel_x, rel_y) ==
    IF ~InRange(rel_x, monitor.width) THEN Raised("ValueError")
    ELSE IF ~InRange(rel_y, monitor.height) THEN Raised("ValueError")
    ELSE Returned(<<monitor.x + rel_x, monitor.y + rel_y>>)

\* lines 54-56: the point is inside the monitor's rectangle.
Contains(monitor, abs_x, abs_y) ==
    LET x_end == monitor.x + monitor.width
        y_end == monitor.y + monitor.height
    IN  monitor.x <= abs_x /\ abs_x < x_end /\ monitor.y <= abs_y /\ abs_y < y_end

\* lines 53-58: the loop over the monitors from the i-th on.
RECURSIVE AbsoluteToRelativeFrom(_, _, _, _)
AbsoluteToRelativeFrom(monitors, i, abs_x, abs_y) ==
    IF i > Len(monitors) THEN None
    ELSE IF Contains(monitors[i], abs_x, abs_y)
           THEN <<monitors[i], abs_x - monitors[i].x, abs_y - monitors[i].y>>
           ELSE AbsoluteToRelativeFrom(monitors, i + 1, abs_x, abs_y)

\* A loop that does not return at the first match: the last match wins.
RECURSIVE AbsoluteToRelativeLastFrom(_, _, _, _)
AbsoluteToRelativeLastFrom(monitors, i, abs_x, abs_y) ==
    IF i < 1 THEN None
    ELSE IF Contains(monitors[i], abs_x, abs_y)
           THEN <<monitors[i], abs_x - monitors[i].x, abs_y - monitors[i].y>>
           ELSE AbsoluteToRelativeLastFrom(monitors, i - 1, abs_x, abs_y)

AbsoluteToRelativeLast(monitors, abs_x, abs_y) ==
    AbsoluteToRelativeLastFrom(monitors, Len(monitors), abs_x, abs_y)

\* lines 50-58
absolute_to_relative(monitors, abs_x, abs_y) ==
    AbsoluteToRelativeFrom(monitors, 1, abs_x, abs_y)

\* relative_to_absolute(monitors[0], rel_x, rel_y) is called.
CoRelativeToAbsolute ==
    /\ co_pc = "input"
    /\ Len(co_monitors) >= 1
    /\ co_pc' = "relative_to_absolute"
    /\ co_result' = relative_to_absolute(co_monitors[1], co_point[1], co_point[2])
    /\ UNCHANGED <<co_monitors, co_point>>
    /\ UNCHANGED exceptCo

\* absolute_to_relative(monitors, abs_x, abs_y) is called.
CoAbsoluteToRelative ==
    /\ co_pc = "input"
    /\ co_pc' = "absolute_to_relative"
    /\ co_result' = absolute_to_relative(co_monitors, co_point[1], co_point[2])
    /\ UNCHANGED <<co_monitors, co_point>>
    /\ UNCHANGED exceptCo

\* No conversion is modelled.
CoIdle ==
    /\ co_pc = "idle"
    /\ co_monitors = <<>>
    /\ co_point = <<0, 0>>
    /\ co_result = None

(***************************************************************************)
(* The review result pipeline: Finding, Summary and normalize(threshold).   *)
(* Paths, rule ids, titles, languages, change kinds and tool names are kept *)
(* as their rank in the order of strings, which is all the pipeline uses.  *)
(***************************************************************************)
Severities == {"low", "medium", "high", "critical"}
Thresholds == {"none"} \cup Severities

\* The fixed order low < medium < high < critical.
SeverityRank(sev) ==
    CASE sev = "low" -> 1
      [] sev = "medium" -> 2
      [] sev = "high" -> 3
      [] sev = "critical" -> 4

Finding(id, path, line, source, title, severity, evidence) ==
    [id |-> id, path |-> path, line |-> line, source |-> source, title |-> title,
     severity |-> severity, evidence |-> evidence]

\* Findings that share the dedup key and differ in evidence or severity, that
\* share the sort key and differ in source, and unrelated ones.
FindingUniverse ==
    {Finding(1, 1, 1, "builtin", 1, "high", 1),
     Finding(1, 1, 1, "builtin", 1, "high", 2),
     Finding(1, 1, 1, "external:tool", 1, "high", 1),
     Finding(2, 1, 2, "builtin", 1, "critical", 1),
     Finding(1, 2, 1, "builtin", 2, "low", 1),
     Finding(1, 1, 1, "builtin", 2, "medium", 1)}

ReviewedFile(path, language, change) ==
    [path |-> path, language |-> language, change |-> change]

FileUniverse ==
    {ReviewedFile(1, 1, 1), ReviewedFile(1, 2, 1), ReviewedFile(2, 1, 2)}

ToolRun(tool, status) == [tool |-> tool, status |-> status]

ToolUniverse == {ToolRun(1, "ok"), ToolRun(2, "missing")}

\* A dedup key that leaves the source out.
DedupKeyNoSource(f) == <<f.id, f.path, f.line, f.title>>

\* Dedup key = (id, path, line, source, title).
DedupKey(f) == <<f.id, f.path, f.line, f.source, f.title>>

\* Findings sort by (descending severity rank, path, line, id, title).
FindingSortKey(f) == <<0 - SeverityRank(f.severity), f.path, f.line, f.id, f.title>>

\* Files sort by (path, language, change).
FileSortKey(f) == <<f.path, f.language, f.change>>

\* Tooling sorts by tool name.
ToolSortKey(t) == <<t.tool>>

\* The order of tuples of numbers of one length: a < b.
RECURSIVE LexLess(_, _)
LexLess(a, b) ==
    IF a = <<>> THEN FALSE
    ELSE IF a[1] # b[1] THEN a[1] < b[1]
    ELSE LexLess(Tail(a), Tail(b))

\* [k |-> key, v |-> item] put into the sorted list s behind every entry whose
\* key is not greater: the sort is stable.
RECURSIVE InsertByKey(_, _)
InsertByKey(e, s) ==
    IF s = <<>> THEN <<e>>
    ELSE IF LexLess(e.k, s[1].k) THEN <<e>> \o s
    ELSE <<s[1]>> \o InsertByKey(e, Tail(s))

RECURSIVE SortByKey(_)
SortByKey(s) ==
    IF s = <<>> THEN <<>>
    ELSE InsertByKey(s[Len(s)], SortByKey(SubSeq(s, 1, Len(s) - 1)))

Undecorate(s) == [i \in 1..Len(s) |-> s[i].v]

SortFindings(s) ==
    Undecorate(SortByKey([i \in 1..Len(s) |-> [k |-> FindingSortKey(s[i]), v |-> s[i]]]))
SortFiles(s) ==
    Undecorate(SortByKey([i \in 1..Len(s) |-> [k |-> FileSortKey(s[i]), v |-> s[i]]]))
SortTooling(s) ==
    Undecorate(SortByKey([i \in 1..Len(s) |-> [k |-> ToolSortKey(s[i]), v |-> s[i]]]))

\* Findings that share a dedup key collapse to one: the first is kept.
RECURSIVE Dedupe(_, _)
Dedupe(s, seen) ==
    IF s = <<>> THEN <<>>
    ELSE IF DedupKey(s[1]) \in seen THEN Dedupe(Tail(s), seen)
    ELSE <<s[1]>> \o Dedupe(Tail(s), seen \cup {DedupKey(s[1])})

\* How many findings of the list have the severity.
RECURSIVE CountSeverity(_, _)
CountSeverity(s, sev) ==
    IF s = <<>> THEN 0
    ELSE (IF s[1].severity = sev THEN 1 ELSE 0) + CountSeverity(Tail(s), sev)

\* A comparison that fails only above the threshold.
SeverityAboveThreshold(sev, thr) ==
    thr # "none" /\ SeverityRank(sev) > SeverityRank(thr)

\* severity_meets_threshold: rank >= the threshold's rank; none is never met.
severity_meets_threshold(sev, thr) ==
    thr # "none" /\ SeverityRank(sev) >= SeverityRank(thr)

\* Summary: the counts per severity, the threshold, failed and the exit code.
Summarize(s, thr) ==
    LET counts == [sev \in Severities |-> CountSeverity(s, sev)]
        failed == \E sev \in Severities :
                      counts[sev] > 0 /\ severity_meets_threshold(sev, thr)
    IN  [counts |-> counts, threshold |-> thr, failed |-> failed,
         exit_code |-> IF failed THEN 1 ELSE 0]

Items == Len(findings) + Len(files) + Len(tooling)

\* A rule engine or tool adapter hands a finding to the result.
RvAddFinding ==
    /\ normalize_runs = 0
    /\ Items < MaxItems
    /\ \E f \in FindingUniverse : findings' = Append(findings, f)
    /\ UNCHANGED <<files, tooling, threshold, summary, normalize_runs, rv_input, rv_first>>
    /\ UNCHANGED exceptRv

\* A selection strategy hands a file to the result.
RvAddFile ==
    /\ normalize_runs = 0
    /\ Items < MaxItems
    /\ \E f \in FileUniverse : files' = Append(files, f)
    /\ UNCHANGED <<findings, tooling, threshold, summary, normalize_runs, rv_input, rv_first>>
    /\ UNCHANGED exceptRv

\* A tool run is recorded.
RvAddTool ==
    /\ normalize_runs = 0
    /\ Items < MaxItems
    /\ \E t \in ToolUniverse : tooling' = Append(tooling, t)
    /\ UNCHANGED <<findings, files, threshold, summary, normalize_runs, rv_input, rv_first>>
    /\ UNCHANGED exceptRv

\* normalize(threshold): dedupe, sort findings, files and tooling, summarize.
RvNormalize ==
    /\ normalize_runs < 2
    /\ normalize_runs' = normalize_runs + 1
    /\ findings' = SortFindings(Dedupe(findings, {}))
    /\ files' = SortFiles(files)
    /\ tooling' = SortTooling(tooling)
    /\ summary' = Summarize(findings', threshold)
    /\ rv_input' = IF normalize_runs = 0 THEN findings ELSE rv_input
    /\ rv_first' = IF normalize_runs = 0
                     THEN <<findings', files', tooling', summary'>>
                     ELSE rv_first
    /\ UNCHANGED threshold
    /\ UNCHANGED exceptRv

\* No review result is modelled.
RvIdle ==
    /\ findings = <<>>
    /\ files = <<>>
    /\ tooling = <<>>
    /\ threshold = "high"
    /\ summary = None
    /\ normalize_runs = 2
    /\ rv_input = <<>>
    /\ rv_first = <<>>

(***************************************************************************)
(* AutoClickerApp (ui.py)                                                  *)
(***************************************************************************)
NoArg == ""
NoId == ""

\* What list_monitors() may give while the application runs: no monitor, or
\* the primary monitor.  (screeninfo was importable
\* when __init__ listed the monitors, so the RuntimeError of monitors.py
\* lines 16-19 does not occur afterwards.)
UiMonitorLists ==
    {<<>>, <<MonitorInfo("monitor-0", "Primary", 0, 0, 3, 2, TRUE)>>}

\* What the user may have typed into the Relative X, Relative Y and Interval
\* entries when a handler reads them.
EntryTexts ==
    {<<" 2 ", "0", "1000">>,   \* valid
     <<"abc", "0", "1000">>,   \* not integers
     <<"0", "0", "">>,         \* not integers
     <<"0", "0", "0">>,        \* interval below 1
     <<"3", "0", "1000">>,     \* x outside the monitor
     <<"0", "2", "1000">>}     \* y outside the monitor

\* int(text.strip()) (lines 182-187): the number, or ValueError.
ParseInt(text) ==
    CASE text = "0" -> Returned(0)
      [] text = " 2 " -> Returned(2)
      [] text = "2" -> Returned(2)
      [] text = "3" -> Returned(3)
      [] text = "1000" -> Returned(1000)
      [] OTHER -> Raised("ValueError")

\* The worker id the next ClickWorker gets: ids are given in the order of creation.
NextWorker ==
    IF \A w \in Workers : workers[w].pc # "unstarted"
      THEN MaxWorkers + 1
      ELSE CHOOSE w \in Workers :
              /\ workers[w].pc = "unstarted"
              /\ \A v \in Workers : workers[v].pc = "unstarted" => w <= v

\* An _is_running that is False once a stop was requested.
IsRunningUnstopped == worker # 0 /\ IsAlive(worker) /\ ~stop_event

\* lines 173-174
IsRunning == worker # 0 /\ IsAlive(worker)

\* lines 156-158: the id the selected label maps to, or None.
SelectedMonitorId ==
    IF \E i \in 1..Len(monitors_by_id) : monitors_by_id[i].id = monitor_var
      THEN monitor_var ELSE NoId

\* lines 119-145: _refresh_monitors(preferred) on the result lm of
\* list_monitors(): the new monitors and selection, or the RuntimeError.
refresh_monitors(lm, preferred) ==
    IF lm = <<>>
      THEN [ok |-> FALSE, exc |-> "No monitors were detected by screeninfo.",
            monitors_by_id |-> monitors_by_id, monitor_var |-> monitor_var]
    ELSE LET ms == lm
             primaries == {i \in 1..Len(ms) : ms[i].is_primary}
             primary == IF primaries = {} THEN ms[1]
                        ELSE ms[CHOOSE i \in primaries : \A j \in primaries : i <= j]
             selected == IF \E i \in 1..Len(ms) : ms[i].id = preferred
                           THEN preferred ELSE primary.id
         IN  [ok |-> TRUE, exc |-> NoExc, monitors_by_id |-> ms, monitor_var |-> selected]

\* An interval test that lets 0 through.
IntervalNegative(interval_ms) == interval_ms < 0

\* lines 189-190: if interval_ms < 1
IntervalTooSmall(interval_ms) == interval_ms < 1

\* lines 176-200: _build_click_config on list_monitors() = lm and the entry
\* texts: the refreshed monitors and selection and, when the configuration is
\* valid, the absolute click position; else the exception's message.
build_click_config(lm, rel_x_text, rel_y_text, interval_text) ==
    LET r == refresh_monitors(lm, SelectedMonitorId)
        found == {i \in 1..Len(r.monitors_by_id) : r.monitors_by_id[i].id = r.monitor_var}
        fail(msg) == [ok |-> FALSE, exc |-> msg, abs |-> <<0, 0>>,
                      monitors_by_id |-> r.monitors_by_id, monitor_var |-> r.monitor_var]
        rel_x == ParseInt(rel_x_text)
        rel_y == ParseInt(rel_y_text)
        interval_ms == ParseInt(interval_text)
    IN  IF ~r.ok THEN fail(r.exc)
        ELSE IF found = {} THEN fail("Select a valid monitor.")
        ELSE IF ~(rel_x.ok /\ rel_y.ok /\ interval_ms.ok)
          THEN fail("Relative X, Relative Y, and Interval must be integers.")
        ELSE IF IntervalTooSmall(interval_ms.value)
          THEN fail("Interval must be at least 1 ms.")
        ELSE LET monitor == r.monitors_by_id[CHOOSE i \in found : TRUE]
                 a == relative_to_absolute(monitor, rel_x.value, rel_y.value)
             IN  IF ~a.ok THEN fail("Coordinate must be inside the monitor.")
                 ELSE [ok |-> TRUE, exc |-> NoExc, abs |-> a.value,
                       monitors_by_id |-> r.monitors_by_id, monitor_var |-> r.monitor_var]

\* A _set_running_controls that leaves the Stop button as it is.
SetStartButtonOnly(running) ==
    /\ start_button' = IF running THEN "disabled" ELSE "normal"
    /\ stop_button' = stop_button

\* lines 169-171
set_running_controls(running) ==
    /\ start_button' = IF running THEN "disabled" ELSE "normal"
    /\ stop_button' = IF running THEN "normal" ELSE "disabled"

\* lines 202-227: start_clicking when list_monitors() gives lm and the
\* entries hold the texts e.  (pending_toggles is left to the caller.)
start_clicking_with(lm, e) ==
    IF IsRunning
      THEN UNCHANGED <<threadVars, worker, shutting_down, start_button, stop_button, status_var,
                       pending_polls, monitors_by_id, monitor_var, hotkey, ui_pc>>
      ELSE   LET c == build_click_config(lm, e[1], e[2], e[3])
             IN  /\ monitors_by_id' = c.monitors_by_id
                 /\ monitor_var' = c.monitor_var
                 /\ UNCHANGED <<click_times, captured_errors, pending_errors,
                                shutting_down, hotkey, ui_pc>>
                 /\ IF ~c.ok
                      THEN /\ status_var' = <<"Cannot start", c.exc>>
                           /\ UNCHANGED <<workers, stop_event, worker, start_button,
                                          stop_button, pending_polls>>
                      ELSE /\ NextWorker <= MaxWorkers
                           /\ pending_polls < MaxPolls
                           /\ stop_event' = FALSE
                           /\ workers' = [workers EXCEPT ![NextWorker] =
                                            [pc |-> "loop", on_error |-> "ui",
                                             click_fn |-> "send_right_click", exc |-> NoExc]]
                           /\ worker' = NextWorker
                           /\ set_running_controls(TRUE)
                           /\ status_var' = <<"Running", NoArg>>
                           /\ pending_polls' = pending_polls + 1

\* lines 202-227: start_clicking.  (pending_toggles is left to the caller.)
start_clicking ==
    \E lm \in UiMonitorLists, e \in EntryTexts : start_clicking_with(lm, e)

\* lines 229-237: stop_clicking.  (pending_toggles is left to the caller.)
stop_clicking ==
    /\ UNCHANGED <<click_times, captured_errors, pending_errors, worker, shutting_down,
                   monitors_by_id, monitor_var, hotkey, ui_pc>>
    /\ IF worker = 0
         THEN /\ set_running_controls(FALSE)
              /\ status_var' = <<"Stopped.", NoArg>>
              /\ UNCHANGED <<workers, stop_event, pending_polls>>
         ELSE /\ pending_polls < MaxPolls
              /\ stop_event' = TRUE
              /\ workers' = Notified(workers)
              /\ status_var' = <<"Stopping...", NoArg>>
              /\ pending_polls' = pending_polls + 1
              /\ UNCHANGED <<start_button, stop_button>>

\* The user presses the Start button.
PressStart ==
    /\ ui_pc = "idle"
    /\ start_button = "normal"
    /\ start_clicking
    /\ UNCHANGED pending_toggles
    /\ UNCHANGED exceptUi

\* The user presses the Stop button.
PressStop ==
    /\ ui_pc = "idle"
    /\ stop_button = "normal"
    /\ stop_clicking
    /\ UNCHANGED pending_toggles
    /\ UNCHANGED exceptUi

\* hotkey.py lines 32-34 and ui.py lines 289-293: F8 is pressed; the listener
\* thread queues _toggle_start_stop.
HotkeyPress ==
    /\ ui_pc # "closed"
    /\ hotkey = "listening"
    /\ pending_toggles < MaxToggles
    /\ pending_toggles' = pending_toggles + 1
    /\ UNCHANGED <<threadVars, worker, shutting_down, start_button, stop_button, status_var,
                   pending_polls, monitors_by_id, monitor_var, hotkey, ui_pc>>
    /\ UNCHANGED exceptUi

\* lines 295-299: a queued _toggle_start_stop runs.
ToggleStartStop ==
    /\ ui_pc = "idle"
    /\ pending_toggles > 0
    /\ pending_toggles' = pending_toggles - 1
    /\ IF IsRunning THEN stop_clicking ELSE start_clicking
    /\ UNCHANGED exceptUi

\* lines 239-255: a scheduled _poll_worker_state runs.
PollWorkerState ==
    /\ ui_pc = "idle"
    /\ pending_polls > 0
    /\ UNCHANGED <<threadVars, shutting_down, pending_toggles, monitors_by_id,
                   monitor_var, hotkey, ui_pc>>
    /\ IF worker = 0
         THEN /\ set_running_controls(FALSE)
              /\ pending_polls' = pending_polls - 1
              /\ UNCHANGED <<worker, status_var>>
         ELSE IF IsAlive(worker)
           THEN UNCHANGED <<worker, start_button, stop_button, status_var, pending_polls>>
           ELSE /\ worker' = 0
                /\ set_running_controls(FALSE)
                /\ pending_polls' = pending_polls - 1
                /\ status_var' = IF shutting_down THEN status_var
                             ELSE IF stop_event THEN <<"Stopped.", NoArg>>
                             ELSE <<"Idle.", NoArg>>
    /\ UNCHANGED exceptUi

\* lines 263-269: a queued _handle_worker_error(message) runs.
HandleWorkerError ==
    /\ ui_pc = "idle"
    /\ pending_errors # <<>>
    /\ pending_errors' = Tail(pending_errors)
    /\ stop_event' = TRUE
    /\ workers' = Notified(workers)
    /\ worker' = 0
    /\ set_running_controls(FALSE)
    /\ status_var' = <<"Worker error", Head(pending_errors).msg>>
    /\ UNCHANGED <<click_times, captured_errors, shutting_down, pending_polls,
                   pending_toggles, monitors_by_id, monitor_var, hotkey, ui_pc>>
    /\ UNCHANGED exceptUi

\* lines 109-117: the Refresh button.
OnRefreshMonitors ==
    /\ ui_pc = "idle"
    /\ \E lm \in UiMonitorLists :
         LET r == refresh_monitors(lm, SelectedMonitorId)
         IN  /\ monitors_by_id' = r.monitors_by_id
             /\ monitor_var' = r.monitor_var
             /\ status_var' = IF r.ok THEN <<"Monitor list refreshed.", NoArg>>
                          ELSE <<r.exc, NoArg>>
    /\ UNCHANGED <<threadVars, worker, shutting_down, start_button, stop_button,
                   pending_polls, pending_toggles, hotkey, ui_pc>>
    /\ UNCHANGED exceptUi

\* Where GetCursorPos may report the cursor; raises: it failed (lines 19-26).
CursorResults ==
    {[raises |-> TRUE, pos |-> <<0, 0>>]}
        \cup {[raises |-> FALSE, pos |-> p] : p \in {<<1, 1>>, <<5, 5>>}}

\* lines 271-287: the Capture Cursor button.
CaptureCursorPosition ==
    /\ ui_pc = "idle"
    /\ \E lm \in UiMonitorLists, cur \in CursorResults :
         LET r == refresh_monitors(lm, SelectedMonitorId)
             result == absolute_to_relative(r.monitors_by_id, cur.pos[1], cur.pos[2])
         IN  /\ monitors_by_id' = r.monitors_by_id
             /\ IF ~r.ok
                  THEN /\ status_var' = <<"Capture failed", r.exc>>
                       /\ monitor_var' = r.monitor_var
                  ELSE IF cur.raises
                    THEN /\ status_var' = <<"Capture failed", "OSError">>
                         /\ monitor_var' = r.monitor_var
                  ELSE IF result = None
                    THEN /\ status_var' = <<"Capture failed",
                                        "Cursor position is outside the detected monitor bounds.">>
                         /\ monitor_var' = r.monitor_var
                  ELSE /\ status_var' = <<"Captured cursor", result[1].name>>
                       /\ monitor_var' = result[1].id
    /\ UNCHANGED <<threadVars, worker, shutting_down, start_button, stop_button,
                   pending_polls, pending_toggles, hotkey, ui_pc>>
    /\ UNCHANGED exceptUi

\* The user picks a label in the monitor combobox (lines 69-71).
SelectMonitor ==
    /\ ui_pc = "idle"
    /\ \E i \in 1..Len(monitors_by_id) : monitor_var' = monitors_by_id[i].id
    /\ UNCHANGED <<threadVars, worker, shutting_down, start_button, stop_button, status_var,
                   pending_polls, pending_toggles, monitors_by_id, hotkey, ui_pc>>
    /\ UNCHANGED exceptUi

\* lines 301-306: the window is closed: _on_close up to the join of a live worker.
CloseBegin ==
    /\ ui_pc = "idle"
    /\ shutting_down' = TRUE
    /\ stop_event' = TRUE
    /\ workers' = Notified(workers)
    /\ IF worker # 0 /\ IsAlive(worker)
         THEN /\ ui_pc' = "joining"
              /\ UNCHANGED <<worker, hotkey>>
         ELSE /\ ui_pc' = "closed"
              /\ worker' = 0
              /\ hotkey' = "stopped"
    /\ UNCHANGED <<click_times, captured_errors, pending_errors, start_button, stop_button,
                   status_var, pending_polls, pending_toggles, monitors_by_id, monitor_var>>
    /\ UNCHANGED exceptUi

\* lines 306-313: join(timeout=2.0) returns, the worker dead or not; the
\* listener is stopped and the window destroyed.
CloseEnd ==
    /\ ui_pc = "joining"
    /\ ui_pc' = "closed"
    /\ worker' = 0
    /\ hotkey' = "stopped"
    /\ UNCHANGED <<threadVars, shutting_down, start_button, stop_button, status_var,
                   pending_polls, pending_toggles, monitors_by_id, monitor_var>>
    /\ UNCHANGED exceptUi

\* The steps of the worker threads the application started; they end with the
\* process when the window is closed (the threads are daemons).
UiWorkerLoop ==
    /\ ui_pc # "closed"
    /\ \E w \in Workers : WorkerLoop(w)
    /\ UNCHANGED <<uiVars, exceptUi>>

UiWorkerClick ==
    /\ ui_pc # "closed"
    /\ \E w \in Workers : WorkerClick(w, TRUE)
    /\ UNCHANGED <<uiVars, exceptUi>>

UiWorkerWaitEnter ==
    /\ ui_pc # "closed"
    /\ \E w \in Workers : WorkerWaitEnter(w)
    /\ UNCHANGED <<uiVars, exceptUi>>

UiWorkerWaitTimeout ==
    /\ ui_pc # "closed"
    /\ \E w \in Workers : WorkerWaitTimeout(w)
    /\ UNCHANGED <<uiVars, exceptUi>>

UiWorkerExit ==
    /\ ui_pc # "closed"
    /\ \E w \in Workers : WorkerExit(w)
    /\ UNCHANGED <<uiVars, exceptUi>>

\* What the last call of start_clicking did, for the specification in which
\* the method is called in any state of the application:
\*   last_start  "none", "noop" (a worker was running), "invalid" or
\*               "valid" (the configuration it was called with)
\*   stopping    the stop event was set when a "noop" call was made
\*   tick        flips at every call
GhApi(last_start, stopping, tick) ==
    [last_start |-> last_start, stopping |-> stopping, tick |-> tick]

\* The configurations start_clicking does not start a worker for, as the
\* messages of lines 125, 180, 187, 190 and of monitors.py 44-46 name them: no
\* monitor detected, no valid monitor selected, an entry that is no integer, an
\* interval below 1 ms, a position outside the selected monitor.
ConfigurationInvalid(lm, e) ==
    LET r == refresh_monitors(lm, SelectedMonitorId)
        selected == {i \in 1..Len(r.monitors_by_id) :
                        r.monitors_by_id[i].id = r.monitor_var}
        x == ParseInt(e[1])
        y == ParseInt(e[2])
        ms == ParseInt(e[3])
    IN  \/ lm = <<>>
        \/ selected = {}
        \/ ~x.ok
        \/ ~y.ok
        \/ ~ms.ok
        \/ ms.value < 1
        \/ \E i \in selected :
              LET m == r.monitors_by_id[i]
              IN  ~(0 <= x.value /\ x.value < m.width /\ 0 <= y.value /\ y.value < m.height)

\* lines 202-227: start_clicking is called on the main thread, by the Start
\* button, by _toggle_start_stop or by any other caller, whatever the state of
\* the buttons.
CallStartClicking ==
    /\ ui_pc = "idle"
    /\ \E lm \in UiMonitorLists, e \in EntryTexts :
         /\ start_clicking_with(lm, e)
         /\ gh' = GhApi(IF worker # 0 /\ IsAlive(worker) THEN "noop"
                         ELSE IF ConfigurationInvalid(lm, e) THEN "invalid"
                         ELSE "valid",
                         worker # 0 /\ IsAlive(worker) /\ stop_event,
                         1 - gh.tick)
    /\ UNCHANGED pending_toggles
    /\ UNCHANGED <<srVars, coVars, rvVars>>

\* The steps of worker thread w while the application runs.
UiWorkerStep(w) ==
    /\ ui_pc # "closed"
    /\ \/ WorkerLoop(w)
       \/ WorkerClick(w, TRUE)
       \/ WorkerWaitEnter(w)
       \/ WorkerWaitTimeout(w)
       \/ WorkerExit(w)
    /\ UNCHANGED <<uiVars, exceptUi>>

\* What the scheduling guarantees: every thread that can run does run, and
\* the Tk main loop runs every callback that after() has scheduled.
UiFair ==
    /\ \A w \in Workers : WF_vars(UiWorkerStep(w))
    /\ WF_vars(PollWorkerState)
    /\ WF_vars(HandleWorkerError)

\* For the specification of a stop request that no start follows:
\*   stop_requested  stop_clicking has been called while a worker was alive
GhStop(stop_requested) == [stop_requested |-> stop_requested]

\* The Start button, as long as no stop has been requested.
StStart ==
    /\ ~gh.stop_requested
    /\ PressStart

\* lines 229-237: the Stop button.
StStop ==
    /\ ui_pc = "idle"
    /\ stop_button = "normal"
    /\ stop_clicking
    /\ UNCHANGED pending_toggles
    /\ gh' = GhStop(gh.stop_requested \/ IsRunning)
    /\ UNCHANGED <<srVars, coVars, rvVars>>

\* Whether a click of some worker has raised.
SomeClickRaised == \E w \in Workers : workers[w].exc # NoExc

\* The Start button, as long as no click has raised.
ErStart ==
    /\ ~SomeClickRaised
    /\ PressStart

\* No application is modelled.
UiIdle ==
    /\ worker = 0
    /\ shutting_down = FALSE
    /\ start_button = "normal"
    /\ stop_button = "disabled"
    /\ status_var = <<"Initializing...", NoArg>>
    /\ pending_polls = 0
    /\ pending_toggles = 0
    /\ monitors_by_id = <<>>
    /\ monitor_var = NoId
    /\ hotkey = "stopped"
    /\ ui_pc = "closed"

(***************************************************************************)
(* Specifications                                                          *)
(***************************************************************************)
WInit ==
    /\ \E fn \in TestClickFns, oe \in TestOnErrors :
         workers = [w \in Workers |->
                      IF w = 1 THEN [pc |-> "loop", on_error |-> oe, click_fn |-> fn,
                                     exc |-> NoExc]
                               ELSE NoWorker]
    /\ stop_event \in BOOLEAN
    /\ click_times = 0
    /\ captured_errors = <<>>
    /\ pending_errors = <<>>
    /\ gh = GhInit(stop_event)
    /\ SrIdle
    /\ CoIdle
    /\ RvIdle
    /\ UiIdle

WNext ==
    \/ WLoop
    \/ WClick
    \/ WWaitEnter
    \/ WWaitTimeout
    \/ WExit
    \/ EnvSetStop

\* The thread is scheduled, click_fn returns or raises, and a wait's interval ends.
WFair ==
    /\ WF_vars(WLoop)
    /\ WF_vars(WClick)
    /\ WF_vars(WWaitEnter)
    /\ WF_vars(WWaitTimeout)
    /\ WF_vars(WExit)

WorkerSpec == WInit /\ [][WNext]_vars /\ WFair

\* One call send_right_click(abs_x, abs_y), on some platform and desktop.
SrInit ==
    /\ sr_pc = "start"
    /\ platform \in {"win32", "darwin", "linux"}
    /\ metrics \in [x : {-1920, 0}, y : {0, -1080}, w : {-1, 0, 1, 3840}, h : {0, 2, 1080}]
    /\ abs_pos \in {-1920, 100, 1919} \X {0, 200}
    /\ normalized = <<0, 0>>
    /\ events = <<>>
    /\ sr_exc = NoExc
    /\ ThreadIdle
    /\ GhIdle
    /\ CoIdle
    /\ RvIdle
    /\ UiIdle

SrNext ==
    \/ SrPlatform
    \/ SrNormalize
    \/ SrDown
    \/ SrUp

ClickSpec == SrInit /\ [][SrNext]_vars

\* The sizes and the offsets of the position from the desktop's origin in the
\* normalisation runs: the small ones, and those of the 3840 pixel wide
\* desktop of tests/test_click_engine.py.
NormSizes == (-1..MaxSize) \cup {3840}

NormOffsets == (-1..MaxSize) \cup {2020, 3839}

\* One call _normalized_virtual_desktop_coordinates(user32, abs_x, abs_y) on
\* Windows, on some virtual desktop.
NormInit ==
    /\ sr_pc = "metrics"
    /\ platform = "win32"
    /\ metrics \in [x : {-1920, 0}, y : {0}, w : NormSizes, h : {1, 2}]
    /\ \E dx \in NormOffsets, dy \in {0, 1} :
          abs_pos = <<metrics.x + dx, metrics.y + dy>>
    /\ normalized = <<0, 0>>
    /\ events = <<>>
    /\ sr_exc = NoExc
    /\ ThreadIdle
    /\ GhIdle
    /\ CoIdle
    /\ RvIdle
    /\ UiIdle

NormNext == SrNormalize

NormalizeSpec == NormInit /\ [][NormNext]_vars

\* One call of a coordinate conversion, on some monitors and some point.
CoInit ==
    /\ co_pc = "input"
    /\ co_monitors \in MonitorLists
    /\ co_point \in (-4..4) \X (-1..3)
    /\ co_result = None
    /\ ThreadIdle
    /\ GhIdle
    /\ SrIdle
    /\ RvIdle
    /\ UiIdle

CoNext ==
    \/ CoRelativeToAbsolute
    \/ CoAbsoluteToRelative

CoordSpec == CoInit /\ [][CoNext]_vars

\* A ReviewResult is filled, then normalized, then normalized again.
RvInit ==
    /\ findings = <<>>
    /\ files = <<>>
    /\ tooling = <<>>
    /\ threshold \in Thresholds
    /\ summary = None
    /\ normalize_runs = 0
    /\ rv_input = <<>>
    /\ rv_first = <<>>
    /\ ThreadIdle
    /\ GhIdle
    /\ SrIdle
    /\ CoIdle
    /\ UiIdle

RvNext ==
    \/ RvAddFinding
    \/ RvAddFile
    \/ RvAddTool
    \/ RvNormalize

ReviewSpec == RvInit /\ [][RvNext]_vars

\* AutoClickerApp.__init__ (lines 30-62) has run: the monitors are listed, the
\* primary (else the first) is selected, the controls are not running, the
\* listener runs or could not be started.
AppConstructed ==
    /\ worker = 0
    /\ shutting_down = FALSE
    /\ start_button = "normal"
    /\ stop_button = "disabled"
    /\ pending_polls = 0
    /\ pending_toggles = 0
    /\ ui_pc = "idle"
    /\ \E l \in UiMonitorLists \ {<<>>} :
         LET primaries == {i \in 1..Len(l) : l[i].is_primary}
         IN  /\ monitors_by_id = l
             /\ monitor_var = IF primaries = {} THEN l[1].id
                              ELSE l[CHOOSE i \in primaries : \A j \in primaries : i <= j].id
    /\ hotkey \in {"listening", "failed"}
    /\ status_var = IF hotkey = "listening" THEN <<"Ready. DPI mode", NoArg>>
                ELSE <<"Hotkey unavailable", NoArg>>

UiInit ==
    /\ ThreadIdle
    /\ GhIdle
    /\ SrIdle
    /\ CoIdle
    /\ RvIdle
    /\ AppConstructed

UiNext ==
    \/ PressStart
    \/ PressStop
    \/ HotkeyPress
    \/ ToggleStartStop
    \/ PollWorkerState
    \/ HandleWorkerError
    \/ OnRefreshMonitors
    \/ CaptureCursorPosition
    \/ SelectMonitor
    \/ CloseBegin
    \/ CloseEnd
    \/ UiWorkerLoop
    \/ UiWorkerClick
    \/ UiWorkerWaitEnter
    \/ UiWorkerWaitTimeout
    \/ UiWorkerExit

UiSpec == UiInit /\ [][UiNext]_vars

\* The application with start_clicking called in any state: the calls, the
\* Stop button, the scheduled callbacks and the worker threads.
ApiInit ==
    /\ ThreadIdle
    /\ gh = GhApi("none", FALSE, 0)
    /\ SrIdle
    /\ CoIdle
    /\ RvIdle
    /\ AppConstructed

ApiNext ==
    \/ CallStartClicking
    \/ PressStop
    \/ PollWorkerState
    \/ HandleWorkerError
    \/ UiWorkerLoop
    \/ UiWorkerClick
    \/ UiWorkerWaitEnter
    \/ UiWorkerWaitTimeout
    \/ UiWorkerExit

ApiSpec == ApiInit /\ [][ApiNext]_vars

\* The application with its Start and Stop buttons, where no start follows a
\* stop requested of a live worker.
StInit ==
    /\ ThreadIdle
    /\ gh = GhStop(FALSE)
    /\ SrIdle
    /\ CoIdle
    /\ RvIdle
    /\ AppConstructed

StNext ==
    \/ StStart
    \/ StStop
    \/ PollWorkerState
    \/ HandleWorkerError
    \/ UiWorkerLoop
    \/ UiWorkerClick
    \/ UiWorkerWaitEnter
    \/ UiWorkerWaitTimeout
    \/ UiWorkerExit

StopSpec == StInit /\ [][StNext]_vars /\ UiFair

\* The application with its Start and Stop buttons, where no start follows a
\* click error.
ErNext ==
    \/ ErStart
    \/ PressStop
    \/ PollWorkerState
    \/ HandleWorkerError
    \/ UiWorkerLoop
    \/ UiWorkerClick
    \/ UiWorkerWaitEnter
    \/ UiWorkerWaitTimeout
    \/ UiWorkerExit

ErrorSpec == UiInit /\ [][ErNext]_vars /\ UiFair

(***************************************************************************)
(* Claims                                                                  *)
(***************************************************************************)
W1 == workers[1]

\* C1: once the stop event is set, the worker calls click_fn at most once more
\* (only when it had already passed the loop condition) and then its thread
\* ends; an event set while the worker is blocked in its interval wait ends
\* the wait at once and no click follows.
C1_Safe ==
    /\ gh.sinceSet <= 1
    /\ gh.sinceSet = 1 => gh.pcAtSet = "click"
    /\ gh.pcAtSet = "waiting" =>
          /\ W1.pc \in {"exit", "dead"}
          /\ gh.sinceSet = 0
          /\ ~gh.expiredSet

C1_StopsAfterStopEvent == []C1_Safe /\ (stop_event ~> (W1.pc = "dead"))

C1_Witness == gh.setBy = "env" /\ gh.sinceSet = 1 /\ W1.pc = "dead"

\* C2: when click_fn raises, on_error (if given) is called exactly once with
\* that exception, the worker calls neither click_fn nor wait() again and its
\* thread ends; nothing but click_fn or another thread sets the stop event;
\* with on_error = None nothing is reported.
C2_Safe ==
    /\ gh.raised =>
          /\ W1.pc \in {"exit", "dead"}
          /\ W1.exc \in Excs
          /\ gh.afterRaise = 0
          /\ captured_errors = IF W1.on_error = "append" THEN <<W1.exc>> ELSE <<>>
    /\ ~gh.raised => captured_errors = <<>>
    /\ stop_event => gh.setBy \in {"env", "click_fn"}

C2_ErrorReportedOnce == []C2_Safe /\ (gh.raised ~> (W1.pc = "dead"))

C2_Witness ==
    /\ gh.raised
    /\ W1.on_error = "append"
    /\ captured_errors = <<"click failed">>
    /\ ~stop_event
    /\ W1.pc = "dead"

\* C3: clicks and waits alternate: no wait precedes the first click, exactly
\* one interval wait expires between two consecutive clicks and it expires
\* with the event unset; after a click during which the event is set there is
\* no further click; a click_fn that sets the event on its second call is
\* called exactly twice.
C3_ClicksAndWaitsAlternate ==
    /\ gh.calls = 0 => gh.waitsSince = 0
    /\ gh.waitsSince <= 1
    /\ (W1.pc = "click" /\ gh.calls > 0) => gh.waitsSince = 1
    /\ ~gh.expiredSet
    /\ gh.pcAtSet = "in_click" => gh.sinceSet = 0
    /\ (W1.click_fn = "stop_at_2" /\ W1.pc = "dead" /\ gh.setBy # "env") =>
          (click_times = 2 /\ gh.calls = 2 /\ gh.setBy = "click_fn")

C3_Witness ==
    /\ W1.click_fn = "stop_at_2"
    /\ W1.pc = "dead"
    /\ gh.setBy = "click_fn"
    /\ click_times = 2

SrWindowsOk == platform = "win32" /\ metrics.w > 0 /\ metrics.h > 0

\* Bit b (a power of two) is set in the flags f.
HasFlag(f, b) == (f \div b) % 2 = 1

\* C4: on Windows with a positive virtual desktop size a call that returns has
\* made exactly two SendInput calls of one event each, MOVE|ABSOLUTE|
\* VIRTUALDESK|RIGHTDOWN and then MOVE|ABSOLUTE|VIRTUALDESK|RIGHTUP, both with
\* the coordinates normalized from the desktop origin and size; no button-up
\* is sent before a button-down was inserted; when the first SendInput does
\* not report 1 the call raises and no button-up is sent.
C4_DownThenUp ==
    LET nx == to_normalized_coordinate(abs_pos[1], metrics.x, metrics.w)
        ny == to_normalized_coordinate(abs_pos[2], metrics.y, metrics.h)
        down == MOUSEEVENTF_MOVE + MOUSEEVENTF_ABSOLUTE + MOUSEEVENTF_VIRTUALDESK
                    + MOUSEEVENTF_RIGHTDOWN
        up == MOUSEEVENTF_MOVE + MOUSEEVENTF_ABSOLUTE + MOUSEEVENTF_VIRTUALDESK
                    + MOUSEEVENTF_RIGHTUP
    IN  /\ Len(events) <= 2
        /\ \A i \in 1..Len(events) :
              /\ events[i].n = 1
              /\ events[i].flags = IF i = 1 THEN down ELSE up
              /\ events[i].dx = nx /\ events[i].dy = ny
              /\ HasFlag(events[i].flags, MOUSEEVENTF_RIGHTUP) =>
                    \E j \in 1..(i - 1) :
                        /\ HasFlag(events[j].flags, MOUSEEVENTF_RIGHTDOWN)
                        /\ events[j].sent = 1
        /\ (SrWindowsOk /\ sr_pc = "returned") =>
              (Len(events) = 2 /\ events[1].sent = 1 /\ events[2].sent = 1)
        /\ (Len(events) >= 1 /\ events[1].sent # 1) =>
              (sr_pc = "raised" /\ sr_exc = "OSError" /\ Len(events) = 1)
        /\ sr_pc = "returned" => SrWindowsOk

C4_Witness ==
    /\ sr_pc = "returned"
    /\ abs_pos = <<100, 200>>
    /\ metrics = [x |-> -1920, y |-> 0, w |-> 3840, h |-> 1080]
    /\ events = <<[n |-> 1, flags |-> 49161, dx |-> 34483, dy |-> 12147, sent |-> 1],
                  [n |-> 1, flags |-> 49169, dx |-> 34483, dy |-> 12147, sent |-> 1]>>

\* C7: when the platform is not win32, or the virtual desktop width or height
\* is not positive, send_right_click raises OSError and makes no SendInput call.
C7_RaisesWithoutInput ==
    (platform # "win32" \/ metrics.w <= 0 \/ metrics.h <= 0) =>
        /\ events = <<>>
        /\ sr_pc \in {"start", "metrics", "raised"}
        /\ sr_pc = "metrics" => platform = "win32"
        /\ sr_pc = "raised" => sr_exc = "OSError"

C7_Witness ==
    /\ platform = "win32"
    /\ metrics.w = 0
    /\ metrics.h > 0
    /\ sr_pc = "raised"
    /\ sr_exc = "OSError"
    /\ events = <<>>

\* C5: relative_to_absolute(monitor, rel_x, rel_y) returns (monitor.x + rel_x,
\* monitor.y + rel_y) exactly when 0 <= rel_x < width and 0 <= rel_y < height,
\* whatever the sign of the monitor's origin, and raises ValueError otherwise,
\* so for rel_x = -1, rel_y = -1, rel_x = width and rel_y = height.
C5_RelativeToAbsolute ==
    co_pc = "relative_to_absolute" =>
        LET m == co_monitors[1]
            rx == co_point[1]
            ry == co_point[2]
            inside == rx \in 0..(m.width - 1) /\ ry \in 0..(m.height - 1)
        IN  /\ inside => co_result = [ok |-> TRUE, value |-> <<m.x + rx, m.y + ry>>]
            /\ ~inside => co_result = [ok |-> FALSE, exc |-> "ValueError"]
            /\ (rx = -1 \/ ry = -1 \/ rx = m.width \/ ry = m.height) => ~co_result.ok

C5_Witness ==
    /\ co_pc = "relative_to_absolute"
    /\ co_monitors[1].x < 0
    /\ co_point = <<2, 1>>
    /\ co_result = [ok |-> TRUE, value |-> <<-1, 1>>]

\* C6: absolute_to_relative(monitors, abs_x, abs_y) returns the first monitor
\* of the list whose half-open rectangle [x, x+width) x [y, y+height) holds
\* the point, with (abs_x - monitor.x, abs_y - monitor.y), and None exactly
\* when no monitor holds the point.
C6_AbsoluteToRelative ==
    co_pc = "absolute_to_relative" =>
        LET ax == co_point[1]
            ay == co_point[2]
            Holds(i) == /\ ax \in co_monitors[i].x .. (co_monitors[i].x + co_monitors[i].width - 1)
                        /\ ay \in co_monitors[i].y .. (co_monitors[i].y + co_monitors[i].height - 1)
            hits == {i \in 1..Len(co_monitors) : Holds(i)}
        IN  /\ (co_result = None) <=> (hits = {})
            /\ hits # {} =>
                  LET first == CHOOSE i \in hits : \A j \in hits : i <= j
                  IN  co_result = <<co_monitors[first], ax - co_monitors[first].x,
                                    ay - co_monitors[first].y>>

C6_Witness ==
    /\ co_pc = "absolute_to_relative"
    /\ Len(co_monitors) = 2
    /\ co_monitors[1].id = "monitor-2"
    /\ co_monitors[2].id = "monitor-0"
    /\ co_point = <<2, 1>>
    /\ co_result = <<co_monitors[1], 1, 0>>

\* C8: the Summary's failed flag is true exactly when some finding has a
\* severity rank >= the threshold's rank in the order low < medium < high <
\* critical; the threshold none never fails; the exit code is 1 when failed
\* and 0 otherwise.
C8_FailedIffThresholdMet ==
    normalize_runs \in {1, 2} =>
        LET order == <<"low", "medium", "high", "critical">>
            Pos(x) == CHOOSE i \in 1..4 : order[i] = x
            met == /\ threshold # "none"
                   /\ \E i \in 1..Len(findings) :
                          Pos(findings[i].severity) >= Pos(threshold)
        IN  /\ summary.failed <=> met
            /\ threshold = "none" => ~summary.failed
            /\ summary.exit_code = IF summary.failed THEN 1 ELSE 0
            /\ summary.threshold = threshold

C8_Witness ==
    /\ normalize_runs = 1
    /\ threshold = "high"
    /\ Len(findings) = 2
    /\ findings[1].severity = "high"
    /\ findings[2].severity = "medium"
    /\ summary.failed
    /\ summary.exit_code = 1

\* C9: after normalize(threshold) no two findings share the dedup key (id,
\* path, line, source, title), every key handed in is still there, findings
\* are ordered by (descending severity rank, path, line, id, title), files by
\* (path, language, change), tooling by tool name, and a second normalize
\* leaves the result as the first left it.
C9_NormalizedAndStable ==
    normalize_runs \in {1, 2} =>
        LET Key(f) == <<f.id, f.path, f.line, f.source, f.title>>
            FLe(a, b) ==
                \/ SeverityRank(a.severity) > SeverityRank(b.severity)
                \/ /\ a.severity = b.severity
                   /\ \/ a.path < b.path
                      \/ /\ a.path = b.path
                         /\ \/ a.line < b.line
                            \/ /\ a.line = b.line
                               /\ \/ a.id < b.id
                                  \/ (a.id = b.id /\ a.title <= b.title)
            GLe(a, b) ==
                \/ a.path < b.path
                \/ /\ a.path = b.path
                   /\ \/ a.language < b.language
                      \/ (a.language = b.language /\ a.change <= b.change)
        IN  /\ \A i, j \in 1..Len(findings) : Key(findings[i]) = Key(findings[j]) => i = j
            /\ {Key(findings[i]) : i \in 1..Len(findings)}
                  = {Key(rv_input[i]) : i \in 1..Len(rv_input)}
            /\ \A i \in 1..Len(findings) : \E j \in 1..Len(rv_input) : findings[i] = rv_input[j]
            /\ \A i, j \in 1..Len(findings) : i < j => FLe(findings[i], findings[j])
            /\ \A i, j \in 1..Len(files) : i < j => GLe(files[i], files[j])
            /\ \A i, j \in 1..Len(tooling) : i < j => tooling[i].tool <= tooling[j].tool
            /\ normalize_runs = 2 => <<findings, files, tooling, summary>> = rv_first

C9_Witness ==
    /\ normalize_runs = 2
    /\ Len(rv_input) = 3
    /\ rv_input[1].severity = "medium"
    /\ rv_input[2] = Finding(1, 1, 1, "builtin", 1, "high", 1)
    /\ rv_input[3] = Finding(1, 1, 1, "builtin", 1, "high", 2)
    /\ findings = <<rv_input[2], rv_input[1]>>
    /\ Len(files) = 1

\* w calls click_fn in this step (lines 150-151).
Clicks(w) == workers[w].pc = "click" /\ workers'[w].pc # "click"

\* C10: clicks of two ClickWorkers of the application never interleave: once
\* start_clicking has started a new worker, no worker started earlier calls
\* click_fn again.  (Workers are numbered in the order start_clicking starts
\* them, so the workers started after w are the started v > w.)
C10_NoInterleaving ==
    [][\A w \in Workers :
          Clicks(w) => \A v \in Workers : v > w => workers[v].pc = "unstarted"]_vars

\* The queued _handle_worker_error at the head of the queue runs in this step.
HandlesWorkerError == pending_errors # <<>> /\ pending_errors' = Tail(pending_errors)

\* C11: an error notification affects only the worker that raised it: when
\* the queued _handle_worker_error runs, no worker started after the failing
\* one is alive (and so has the stop event set for it) or is the one _worker
\* refers to (and so loses its reference).
C11_ErrorAffectsOnlyItsWorker ==
    [][HandlesWorkerError =>
          \A v \in Workers :
              v > Head(pending_errors).from => ~IsAlive(v) /\ worker # v]_vars

\* start_clicking is called in this step.
CallsStartClicking == gh'.tick # gh.tick

\* C12: start_clicking is a no-op while the current worker is alive: no
\* worker is created, the stop event is not cleared, the monitors are not
\* refreshed, status and buttons are unchanged.
C12_StartIsNoopWhileRunning ==
    [][CallsStartClicking /\ worker # 0 /\ IsAlive(worker) =>
          UNCHANGED <<threadVars, uiVars>>]_vars

\* start_clicking was called while a worker was alive and a stop was
\* requested; the stop is still requested and the worker referenced.
C12_Witness ==
    /\ gh.last_start = "noop"
    /\ gh.stopping
    /\ stop_event
    /\ worker # 0
    /\ status_var = <<"Stopping...", NoArg>>

\* C13 as stated: a start_clicking with an invalid configuration creates no
\* worker, leaves _worker and the stop event unchanged, leaves the buttons in
\* the not-running state and sets the status to 'Cannot start: <reason>'.
C13_InvalidStartChangesNothing ==
    [][CallsStartClicking /\ gh'.last_start = "invalid" =>
          /\ workers' = workers
          /\ worker' = worker
          /\ stop_event' = stop_event
          /\ start_button' = "normal"
          /\ stop_button' = "disabled"
          /\ status_var'[1] = "Cannot start"]_vars

\* C13, amended: ... and leaves the buttons unchanged; they are in the
\* not-running state whenever no worker is referenced.
C13_InvalidStartKeepsButtons ==
    [][CallsStartClicking /\ gh'.last_start = "invalid" =>
          /\ workers' = workers
          /\ worker' = worker
          /\ stop_event' = stop_event
          /\ pending_polls' = pending_polls
          /\ start_button' = start_button
          /\ stop_button' = stop_button
          /\ worker = 0 => start_button' = "normal" /\ stop_button' = "disabled"
          /\ status_var'[1] = "Cannot start"
          /\ status_var'[2] # NoArg]_vars

\* An interval of 0 was refused: no worker has ever been started.
C13_Witness ==
    /\ gh.last_start = "invalid"
    /\ status_var = <<"Cannot start", "Interval must be at least 1 ms.">>
    /\ \A w \in Workers : workers[w].pc = "unstarted"
    /\ start_button = "normal"

\* No worker thread is alive, none is referenced, the controls are not
\* running and no _poll_worker_state is scheduled.
AllStopped ==
    /\ \A w \in Workers : ~IsAlive(w)
    /\ worker = 0
    /\ start_button = "normal"
    /\ stop_button = "disabled"
    /\ pending_polls = 0

C15_ErrorEndsInErrorState ==
    /\ [](SomeClickRaised =>
             <>[](/\ worker = 0
                  /\ stop_event
                  /\ start_button = "normal"
                  /\ stop_button = "disabled"
                  /\ pending_errors = <<>>
                  /\ status_var = <<"Worker error", "OSError">>))
    /\ [](pending_errors # <<>> /\ worker = 0 => status_var[1] \in {"Idle.", "Stopped."})

\* The click of worker 1 raised, the poll and the error callback have run.
C15_Witness ==
    /\ workers[1].exc = "OSError"
    /\ workers[1].pc = "dead"
    /\ worker = 0
    /\ pending_polls = 0
    /\ pending_errors = <<>>
    /\ status_var = <<"Worker error", "OSError">>

\* C16: before the window is closed, after each UI callback the buttons are
\* in the running state (Start disabled, Stop enabled) exactly when _worker is
\* not None, and otherwise in the not-running state (Start enabled, Stop
\* disabled), in which no worker is referenced.
C16_ButtonsFollowWorker ==
    ui_pc = "idle" =>
        /\ (start_button = "disabled" /\ stop_button = "normal") <=> worker # 0
        /\ (start_button = "normal" /\ stop_button = "disabled") <=> worker = 0

\* An error callback has reset the buttons and dropped the reference while a
\* worker whose clicks have not failed is alive.
C16_Witness ==
    /\ ui_pc = "idle"
    /\ worker = 0
    /\ start_button = "normal"
    /\ stop_button = "disabled"
    /\ status_var[1] = "Worker error"
    /\ \E w \in Workers : IsAlive(w) /\ workers[w].exc = NoExc

Abs(n) == IF n < 0 THEN -n ELSE n

\* What C17 says of result = _to_normalized_coordinate(value, start, size).
NormalizedAsStated(value, start, size, result) ==
    /\ size <= 1 => result = 0
    /\ size > 1 /\ start <= value /\ value <= start + size - 1 =>
          /\ result \in 0..65535
          /\ value = start => result = 0
          /\ value = start + size - 1 => result = 65535
          /\ value < start + size - 1 =>
                result <= to_normalized_coordinate(value + 1, start, size)
          /\ 2 * Abs(result * (size - 1) - (value - start) * 65535) <= size - 1

\* C17: _to_normalized_coordinate(value, start, size) is 0 when size <= 1;
\* for size > 1 and value within start..start+size-1 it is an integer in
\* 0..65535, 0 at start, 65535 at start+size-1, non-decreasing in value, and
\* (value - start) * 65535 / (size - 1) rounded to the nearest integer.
C17_NormalizedCoordinate ==
    /\ sr_pc = "down" =>
          /\ NormalizedAsStated(abs_pos[1], metrics.x, metrics.w, normalized[1])
          /\ NormalizedAsStated(abs_pos[2], metrics.y, metrics.h, normalized[2])
    /\ \A size \in -1..1 :
          to_normalized_coordinate(abs_pos[1], metrics.x, size) = 0

\* The position (100, 0) on the desktop of width 3840 at -1920 is normalised
\* to round(2020 * 65535 / 3839), and y on a desktop of height 1 to 0.
C17_Witness ==
    /\ sr_pc = "down"
    /\ metrics.x = -1920
    /\ metrics.w = 3840
    /\ metrics.h = 1
    /\ abs_pos = <<100, 0>>
    /\ normalized = <<34483, 0>>

=============================================================================
